---- MODULE Spec2Model ----
(***************************************************************************)
(* nextya-sync: one-directional synchronisation of Nextcloud folders into  *)
(* a Yandex Disk target folder (processor.Processor.Main and the functions *)
(* it calls).  Strings are sequences of one-character strings, so that     *)
(* path.Base, path.Dir, strings.Trim and url.QueryUnescape are computed    *)
(* character by character as the Go library computes them.                 *)
(***************************************************************************)
EXTENDS Integers, Sequences, FiniteSets, TLC

VARIABLES
    cfg,        \* Config: [YandexTargetPath, NextcloudSyncPaths]
    nc,         \* the Nextcloud remote: directory path -> listing
    yd,         \* the Yandex Disk remote: directory path -> listing
    pc,         \* position of Main: "start", "root", "target", "sync", "done"
    idx,        \* index of the sync path the loop of Main is at
    yndxFs,     \* Main's yndxFs, the snapshot of the target folder
    ncFs,       \* Main's ncFs, the snapshot of the current sync path
    stack,      \* the active syncFolders calls, innermost last
    stats,      \* SyncStats
    result,     \* what Main returned: "none" (still running), "nil", "error"
    calls,      \* every remote call issued so far, in order
    hist,       \* what the run decided so far, in order (history variable)
    faults      \* number of transport failures the remotes have produced

vars == <<cfg, nc, yd, pc, idx, yndxFs, ncFs, stack, stats, result, calls, hist, faults>>

(***************************************************************************)
(* Bounds of the model.                                                    *)
(***************************************************************************)
MaxTime == 2       \* modification times of the initial files are 1..MaxTime
MaxFaults == 2     \* transport failures injected in one run

(***************************************************************************)
(* Strings.                                                                *)
(***************************************************************************)
Max(S) == CHOOSE x \in S : \A y \in S : y <= x

\* index of the last "/" of s[1..n], 0 when there is none (strings.LastIndex + 1)
RECURSIVE LastSlashIn(_, _)
LastSlashIn(s, n) ==
    IF n = 0 THEN 0 ELSE IF s[n] = "/" THEN n ELSE LastSlashIn(s, n - 1)

LastSlash(s) == LastSlashIn(s, Len(s))

\* strings.ReplaceAll(s, "\\", "/")
ReplaceBackslash(s) == [i \in 1..Len(s) |-> IF s[i] = "\\" THEN "/" ELSE s[i]]

\* strings.TrimRight(s, "/")
RECURSIVE TrimRightSlashes(_)
TrimRightSlashes(s) ==
    IF s # <<>> /\ s[Len(s)] = "/" THEN TrimRightSlashes(SubSeq(s, 1, Len(s) - 1)) ELSE s

\* strings.TrimLeft(s, "/")
RECURSIVE TrimLeftSlashes(_)
TrimLeftSlashes(s) ==
    IF s # <<>> /\ s[1] = "/" THEN TrimLeftSlashes(Tail(s)) ELSE s

\* strings.Trim(s, "/")
TrimSlashes(s) == TrimLeftSlashes(TrimRightSlashes(s))

\* path.Base: the last element of the path, trailing slashes removed;
\* "." for the empty path and "/" for a path of slashes only
Base(s) ==
    IF s = <<>> THEN <<".">>
    ELSE LET t == TrimRightSlashes(s)
         IN  IF t = <<>> THEN <<"/">>
             ELSE SubSeq(t, LastSlash(t) + 1, Len(t))

\* a slash is written once where s has several in a row
RECURSIVE Collapse(_)
Collapse(s) ==
    IF Len(s) < 2 THEN s
    ELSE IF s[1] = "/" /\ s[2] = "/" THEN Collapse(Tail(s))
    ELSE <<s[1]>> \o Collapse(Tail(s))

\* path.Clean on a path without "." and ".." elements: repeated slashes
\* collapse, a trailing slash goes unless the path is the root, and the
\* empty path becomes "."
Clean(s) ==
    LET c == Collapse(s)
    IN  IF c = <<>> THEN <<".">>
        ELSE IF Len(c) > 1 /\ c[Len(c)] = "/" THEN SubSeq(c, 1, Len(c) - 1)
        ELSE c

\* path.Dir: all but the last element of the path, cleaned
Dir(s) == Clean(SubSeq(s, 1, LastSlash(s)))

Join(base, name) == base \o <<"/">> \o name

(***************************************************************************)
(* url.QueryUnescape.  A "%" must be followed by two hexadecimal digits,   *)
(* or the whole call fails; "+" becomes a space.  Unhex gives the byte     *)
(* that the escapes occurring in the model stand for.                      *)
(***************************************************************************)
HexDigits == {"0", "1", "2", "3", "4", "5", "6", "7", "8", "9",
              "a", "b", "c", "d", "e", "f", "A", "B", "C", "D", "E", "F"}

Unhex(h, l) ==
    CASE h = "2" /\ l = "0" -> " "
      [] h = "2" /\ l = "5" -> "%"
      [] h = "2" /\ l \in {"B", "b"} -> "+"
      [] h = "2" /\ l \in {"F", "f"} -> "/"
      [] h = "6" /\ l = "1" -> "a"
      [] OTHER -> "?"

RECURSIVE EscapesOk(_)
EscapesOk(s) ==
    IF s = <<>> THEN TRUE
    ELSE IF s[1] = "%"
         THEN /\ Len(s) >= 3
              /\ s[2] \in HexDigits
              /\ s[3] \in HexDigits
              /\ EscapesOk(SubSeq(s, 4, Len(s)))
         ELSE EscapesOk(Tail(s))

RECURSIVE Unescape(_)
Unescape(s) ==
    IF s = <<>> THEN <<>>
    ELSE IF s[1] = "%"
         THEN <<Unhex(s[2], s[3])>> \o Unescape(SubSeq(s, 4, Len(s)))
         ELSE IF s[1] = "+"
              THEN <<" ">> \o Unescape(Tail(s))
              ELSE <<s[1]>> \o Unescape(Tail(s))

\* [ok, val]: ok = FALSE is the EscapeError of url.QueryUnescape
QueryUnescape(s) ==
    IF EscapesOk(s) THEN [ok |-> TRUE, val |-> Unescape(s)]
    ELSE [ok |-> FALSE, val |-> <<>>]

\* decodedFileName: the unescaped name, or the name itself when that fails
DecodeName(name) ==
    LET r == QueryUnescape(name) IN IF r.ok THEN r.val ELSE name

(***************************************************************************)
(* The remotes.  A remote is a function from the paths of its directories  *)
(* (without leading and trailing slash; <<>> is the top directory) to the  *)
(* listing of each: a sequence of FileInfo records in the remote's own     *)
(* order.  A call fails when the remote refuses it (the status the client  *)
(* checks) or when `down` says the transport failed.                       *)
(***************************************************************************)
Now == MaxTime + 1     \* the modification time an upload leaves

Key(p) == TrimSlashes(p)

ParentKey(k) == IF LastSlash(k) = 0 THEN <<>> ELSE SubSeq(k, 1, LastSlash(k) - 1)

FileInfo(p, isDir, t) == [Path |-> p, IsDir |-> isDir, ModTime |-> t]

IsDirAt(remote, p) == Key(p) \in DOMAIN remote

EntryAt(remote, p) ==
    LET k == Key(p)
        par == ParentKey(k)
    IN  IF k = <<>> \/ par \notin DOMAIN remote THEN {}
        ELSE {i \in 1..Len(remote[par]) : Key(remote[par][i].Path) = k}

IsFileAt(remote, p) == EntryAt(remote, p) # {} /\ ~IsDirAt(remote, p)

ExistsAt(remote, p) == IsDirAt(remote, p) \/ EntryAt(remote, p) # {}

\* YandexDiskClient.ListFiles: the items of the folder; a resource that is a
\* file answers 200 with no embedded items
YdListFiles(remote, folderPath, down) ==
    IF down \/ ~ExistsAt(remote, folderPath) THEN [ok |-> FALSE, files |-> <<>>]
    ELSE IF IsDirAt(remote, folderPath)
         THEN [ok |-> TRUE, files |-> remote[Key(folderPath)]]
         ELSE [ok |-> TRUE, files |-> <<>>]

\* YandexDiskClient.GetFileInfo: status 200 for a file or a folder that is there
YdGetFileInfo(remote, filePath, down) == ~down /\ ExistsAt(remote, filePath)

\* YandexDiskClient.CreateFolder: status 201 only when the folder was created:
\* the path must be free and its parent a folder
YdCreateFolder(remote, folderPath, down) ==
    LET k == Key(folderPath)
        par == ParentKey(k)
    IN  IF down THEN [ok |-> FALSE, err |-> "RemoteUnavailable", yd |-> remote]
        ELSE IF ExistsAt(remote, folderPath)
             THEN [ok |-> FALSE, err |-> "AlreadyExists", yd |-> remote]
        ELSE IF par \notin DOMAIN remote
             THEN [ok |-> FALSE, err |-> "NotFound", yd |-> remote]
        ELSE [ok |-> TRUE, err |-> "",
              yd |-> (k :> <<>>) @@
                     [remote EXCEPT ![par] = Append(@, FileInfo(<<"/">> \o k, TRUE, Now))]]

\* YandexDiskClient.UploadFile (overwrite=true): status 201 when the file was
\* stored; the parent must be a folder and the path must not be a folder
YdUploadFile(remote, filePath, down) ==
    LET k == Key(filePath)
        par == ParentKey(k)
        at == EntryAt(remote, filePath)
    IN  IF down \/ k = <<>> \/ par \notin DOMAIN remote \/ k \in DOMAIN remote
        THEN [ok |-> FALSE, yd |-> remote]
        ELSE IF at # {}
             THEN [ok |-> TRUE,
                   yd |-> [remote EXCEPT ![par] =
                              [i \in 1..Len(@) |-> IF i \in at
                                                   THEN FileInfo(@[i].Path, FALSE, Now)
                                                   ELSE @[i]]]]
             ELSE [ok |-> TRUE,
                   yd |-> [remote EXCEPT ![par] =
                              Append(@, FileInfo(<<"/">> \o k, FALSE, Now))]]

\* NextcloudClient.ListFiles: the responses of the PROPFIND but the first
NcListFiles(remote, folderPath, down) ==
    IF down \/ ~IsDirAt(remote, folderPath) THEN [ok |-> FALSE, files |-> <<>>]
    ELSE [ok |-> TRUE, files |-> remote[Key(folderPath)]]

\* one logged call
Call(remote, op, path, ok) == [remote |-> remote, op |-> op, path |-> path, ok |-> ok]

(***************************************************************************)
(* models.Folder and the two snapshot builders.  The n-th ListFiles call   *)
(* of a walk fails by transport when n = failAt.  The result carries the   *)
(* calls the walk issued and whether the transport failure happened.       *)
(***************************************************************************)
Folder(p) == [Path |-> p, Files |-> <<>>, Folders |-> <<>>]

File(info) == [Path |-> info.Path, Modified |-> info.ModTime]

WalkFailed(n, cs, fault) ==
    [ok |-> FALSE, fs |-> Folder(<<>>), n |-> n, calls |-> cs, fault |-> fault]

RECURSIVE getYandexFileSystem(_, _, _, _)
RECURSIVE YandexEntries(_, _, _, _, _)

\* the loop of getYandexFileSystem over files[i..], acc the result so far
YandexEntries(remote, files, i, acc, failAt) ==
    IF i > Len(files) THEN acc
    ELSE IF files[i].IsDir
         THEN LET sub == getYandexFileSystem(remote, files[i].Path, acc.n, failAt)
              IN  IF ~sub.ok
                  THEN WalkFailed(sub.n, acc.calls \o sub.calls, sub.fault)
                  ELSE YandexEntries(remote, files, i + 1,
                           [acc EXCEPT !.fs.Folders = Append(@, sub.fs),
                                       !.n = sub.n,
                                       !.calls = @ \o sub.calls],
                           failAt)
         ELSE YandexEntries(remote, files, i + 1,
                  [acc EXCEPT !.fs.Files = Append(@, File(files[i]))], failAt)

getYandexFileSystem(remote, rootPath, n, failAt) ==
    LET down == (n + 1 = failAt)
        r == YdListFiles(remote, rootPath, down)
        c == <<Call("yd", "ListFiles", rootPath, r.ok)>>
    IN  IF ~r.ok THEN WalkFailed(n + 1, c, down)
        ELSE YandexEntries(remote, r.files, 1,
                 [ok |-> TRUE, fs |-> Folder(rootPath), n |-> n + 1,
                  calls |-> c, fault |-> FALSE],
                 failAt)

RECURSIVE getNextcloudFileSystem(_, _, _, _)
RECURSIVE NextcloudEntries(_, _, _, _, _)

\* the loop of getNextcloudFileSystem, were a subfolder that cannot be
\* listed left out of the snapshot
RECURSIVE NextcloudEntriesPartial(_, _, _, _, _)
NextcloudEntriesPartial(remote, files, i, acc, failAt) ==
    IF i > Len(files) THEN acc
    ELSE IF files[i].IsDir
         THEN LET sub == getNextcloudFileSystem(remote, files[i].Path, acc.n, failAt)
              IN  NextcloudEntriesPartial(remote, files, i + 1,
                      [acc EXCEPT !.fs.Folders = IF sub.ok THEN Append(@, sub.fs) ELSE @,
                                  !.n = sub.n,
                                  !.calls = @ \o sub.calls,
                                  !.fault = @ \/ sub.fault],
                      failAt)
         ELSE NextcloudEntriesPartial(remote, files, i + 1,
                  [acc EXCEPT !.fs.Files = Append(@, File(files[i]))], failAt)

\* the loop of getNextcloudFileSystem over files[i..], acc the result so far
NextcloudEntries(remote, files, i, acc, failAt) ==
    IF i > Len(files) THEN acc
    ELSE IF files[i].IsDir
         THEN LET sub == getNextcloudFileSystem(remote, files[i].Path, acc.n, failAt)
              IN  IF ~sub.ok
                  THEN WalkFailed(sub.n, acc.calls \o sub.calls, sub.fault)
                  ELSE NextcloudEntries(remote, files, i + 1,
                           [acc EXCEPT !.fs.Folders = Append(@, sub.fs),
                                       !.n = sub.n,
                                       !.calls = @ \o sub.calls],
                           failAt)
         ELSE NextcloudEntries(remote, files, i + 1,
                  [acc EXCEPT !.fs.Files = Append(@, File(files[i]))], failAt)

getNextcloudFileSystem(remote, rootPath, n, failAt) ==
    LET down == (n + 1 = failAt)
        r == NcListFiles(remote, rootPath, down)
        c == <<Call("nc", "ListFiles", rootPath, r.ok)>>
    IN  IF ~r.ok THEN WalkFailed(n + 1, c, down)
        ELSE NextcloudEntries(remote, r.files, 1,
                 [ok |-> TRUE, fs |-> Folder(rootPath), n |-> n + 1,
                  calls |-> c, fault |-> FALSE],
                 failAt)

(***************************************************************************)
(* createFolderChain.  gdown and mdown are the paths at which GetFileInfo  *)
(* and CreateFolder fail by transport during this call.  The result        *)
(* carries the remote afterwards, the calls issued, the error of the       *)
(* failing CreateFolder and the transport failures that changed an answer  *)
(* (GetFileInfo of a path that is not there fails either way).             *)
(***************************************************************************)
\* createFolderChain without its check that the folder is there already
RECURSIVE createFolderChainNoCheck(_, _, _, _)
createFolderChainNoCheck(remote, path, gdown, mdown) ==
    LET folderPath == TrimSlashes(ReplaceBackslash(path))
        done(ok, err, r, cs, used) ==
            [ok |-> ok, err |-> err, yd |-> r, calls |-> cs, used |-> used]
    IN  IF folderPath = <<>> THEN done(TRUE, "", remote, <<>>, {})
        ELSE
        LET parentPath == Dir(folderPath)
            up == IF parentPath # <<".">> /\ parentPath # <<"/">>
                     /\ parentPath # folderPath /\ ~ExistsAt(remote, parentPath)
                  THEN createFolderChainNoCheck(remote, parentPath, gdown, mdown)
                  ELSE done(TRUE, "", remote, <<>>, {})
        IN  IF ~up.ok THEN up
            ELSE
            LET mk == YdCreateFolder(up.yd, folderPath, folderPath \in mdown)
                c2 == <<Call("yd", "CreateFolder", folderPath, mk.ok)>>
                u2 == IF folderPath \in mdown THEN {<<"m", folderPath>>} ELSE {}
            IN  done(mk.ok, mk.err, mk.yd, up.calls \o c2, up.used \cup u2)

RECURSIVE createFolderChain(_, _, _, _)
createFolderChain(remote, path, gdown, mdown) ==
    LET folderPath == TrimSlashes(ReplaceBackslash(path))
        done(ok, err, r, cs, used) ==
            [ok |-> ok, err |-> err, yd |-> r, calls |-> cs, used |-> used]
    IN  IF folderPath = <<>> THEN done(TRUE, "", remote, <<>>, {})
        ELSE
        LET found == YdGetFileInfo(remote, folderPath, folderPath \in gdown)
            c1 == <<Call("yd", "GetFileInfo", folderPath, found)>>
            u1 == IF folderPath \in gdown /\ ExistsAt(remote, folderPath)
                  THEN {<<"g", folderPath>>} ELSE {}
        IN  IF found THEN done(TRUE, "", remote, c1, u1)
            ELSE
            LET parentPath == Dir(folderPath)
                up == IF parentPath # <<".">> /\ parentPath # <<"/">>
                         /\ parentPath # folderPath
                      THEN createFolderChain(remote, parentPath, gdown, mdown)
                      ELSE done(TRUE, "", remote, <<>>, {})
            IN  IF ~up.ok
                THEN done(FALSE, up.err, up.yd, c1 \o up.calls, u1 \cup up.used)
                ELSE
                LET mk == YdCreateFolder(up.yd, folderPath, folderPath \in mdown)
                    c2 == <<Call("yd", "CreateFolder", folderPath, mk.ok)>>
                    u2 == IF folderPath \in mdown THEN {<<"m", folderPath>>} ELSE {}
                IN  done(mk.ok, mk.err, mk.yd, c1 \o up.calls \o c2,
                         u1 \cup up.used \cup u2)

\* the paths createFolderChain may look at: the path and its ancestors
RECURSIVE ChainPaths(_)
ChainPaths(path) ==
    LET p == TrimSlashes(path)
    IN  IF p = <<>> THEN {}
        ELSE {p} \cup (IF LastSlash(p) = 0 THEN {} ELSE ChainPaths(ParentKey(p)))

(***************************************************************************)
(* syncFile and the decisions of syncFolders.                              *)
(***************************************************************************)
AfterOrEqual(t, u) == t >= u

\* time.Time.After
After(t, u) == t > u

\* yandexFiles[name] of syncFolders: the map is filled in listing order, so
\* the last file of that base name is the one it holds; {} when there is none
YandexFilesAt(yandexFolder, name) ==
    LET hits == {i \in 1..Len(yandexFolder.Files) :
                    Base(yandexFolder.Files[i].Path) = name}
    IN  IF hits = {} THEN {} ELSE {yandexFolder.Files[Max(hits)]}

\* yandexFolders[name] of syncFolders
YandexFoldersAt(yandexFolder, name) ==
    LET hits == {i \in 1..Len(yandexFolder.Folders) :
                    Base(yandexFolder.Folders[i].Path) = name}
    IN  IF hits = {} THEN {} ELSE {yandexFolder.Folders[Max(hits)]}

\* needsSync, were the file looked up under the name as Nextcloud gives it
NeedsSyncRaw(ncFile, yandexFolder) ==
    LET found == YandexFilesAt(yandexFolder, Base(ncFile.Path))
    IN  IF found = {} THEN TRUE
        ELSE \E yandexFile \in found : After(ncFile.Modified, yandexFile.Modified)

\* needsSync of syncFolders for one file of ncFolder
NeedsSync(ncFile, yandexFolder) ==
    LET found == YandexFilesAt(yandexFolder, DecodeName(Base(ncFile.Path)))
    IN  IF found = {} THEN TRUE
        ELSE \E yandexFile \in found : After(ncFile.Modified, yandexFile.Modified)

UploadPathRaw(yandexBasePath, fileName) == Join(yandexBasePath, fileName)

\* where syncFile uploads to
UploadPath(yandexBasePath, fileName) == Join(yandexBasePath, DecodeName(fileName))

\* syncFile; down names the call that fails by transport: "DownloadFile",
\* "GetFileInfo", "UploadFile" or "none"
syncFile(remote, ncFilePath, yandexBasePath, fileName, down) ==
    LET yandexFilePath == UploadPath(yandexBasePath, fileName)
        c1 == <<Call("nc", "DownloadFile", ncFilePath, down # "DownloadFile")>>
        c2 == <<Call("nc", "GetFileInfo", ncFilePath, down # "GetFileInfo")>>
        up == YdUploadFile(remote, yandexFilePath, down = "UploadFile")
        c3 == <<Call("yd", "UploadFile", yandexFilePath, up.ok)>>
    IN  IF down = "DownloadFile" THEN [ok |-> FALSE, yd |-> remote, calls |-> c1]
        ELSE IF down = "GetFileInfo"
             THEN [ok |-> FALSE, yd |-> remote, calls |-> c1 \o c2]
        ELSE [ok |-> up.ok, yd |-> up.yd, calls |-> c1 \o c2 \o c3]

TargetPathFlat(yandexTargetPath, syncPaths, syncPath) == yandexTargetPath

\* targetPath of Main for one sync path
TargetPath(yandexTargetPath, syncPaths, syncPath) ==
    IF Len(syncPaths) = 1 THEN yandexTargetPath
    ELSE LET pathName == Base(syncPath)
         IN  Join(yandexTargetPath,
                  IF pathName = <<"/">> \/ pathName = <<".">>
                  THEN <<"r", "o", "o", "t">> ELSE pathName)

\* one active call of syncFolders: its arguments, and the positions of its
\* two loops
Frame(ncFolder, yandexFolder, yandexBasePath) ==
    [nc |-> ncFolder, yd |-> yandexFolder, base |-> yandexBasePath, fi |-> 1, di |-> 1]

(***************************************************************************)
(* The initial remotes and configurations.                                 *)
(***************************************************************************)
Times == 1..MaxTime

\* a remote holding the given entries, <<path, isDir, time>>, parents first
RECURSIVE Populate(_, _)
Populate(remote, entries) ==
    IF entries = <<>> THEN remote
    ELSE LET e == Head(entries)
             k == Key(e[1])
             par == ParentKey(k)
             listed == [remote EXCEPT ![par] = Append(@, FileInfo(e[1], e[2], e[3]))]
         IN  Populate(IF e[2] THEN (k :> <<>>) @@ listed ELSE listed, Tail(entries))

EmptyRemote == (<<>> :> <<>>)

\* the Nextcloud account: /d with two files (one with an escaped name) and
\* two folders of one file each, and /p with one file; hrefs of folders end
\* with a slash
Nextcloud(t) ==
    Populate(EmptyRemote,
        << <<<<"/", "d", "/">>, TRUE, 1>>,
           <<<<"/", "d", "/", "a">>, FALSE, t>>,
           <<<<"/", "d", "/", "m", "%", "2", "0", "f">>, FALSE, 1>>,
           <<<<"/", "d", "/", "s", "/">>, TRUE, 1>>,
           <<<<"/", "d", "/", "s", "/", "c">>, FALSE, 1>>,
           <<<<"/", "d", "/", "t", "/">>, TRUE, 1>>,
           <<<<"/", "d", "/", "t", "/", "e">>, FALSE, 1>>,
           <<<<"/", "p", "/">>, TRUE, 1>>,
           <<<<"/", "p", "/", "a">>, FALSE, 1>> >>)

TargetPath1 == <<"/", "x", "/", "b">>

\* the folders above and including the target, parents first
RECURSIVE Ancestors(_)
Ancestors(k) ==
    IF k = <<>> THEN <<>>
    ELSE Append(Ancestors(ParentKey(k)), <<<<"/">> \o k, TRUE, 1>>)

\* Yandex Disks with the target folder T and, in it, the given entries
Disk(T, entries) == Populate(EmptyRemote, Ancestors(Key(T)) \o entries)

\* Yandex Disks on which the target folder is missing: nothing there at all,
\* or the folders above the target only
NoTarget(T) ==
    LET up == Ancestors(Key(T))
    IN  {EmptyRemote, Populate(EmptyRemote, SubSeq(up, 1, Len(up) - 1))}

\* the runs: a configuration, the Nextcloud account and the Yandex Disk the
\* run starts from
Run(T, paths, account, disk) ==
    [cfg |-> [YandexTargetPath |-> T, NextcloudSyncPaths |-> paths],
     nc |-> account, yd |-> disk]

Runs(T) ==
    LET in(name) == Join(T, name)
        d == <<"/", "d">>
        p == <<"/", "p">>
    IN  \* no sync path
        { Run(T, <<>>, Nextcloud(1), disk) : disk \in NoTarget(T) \cup {Disk(T, <<>>)} }
        \cup
        \* one sync path, /d, into a target that is missing or empty
        { Run(T, <<d>>, Nextcloud(1), disk) : disk \in NoTarget(T) \cup {Disk(T, <<>>)} }
        \cup
        \* ... into a target that has the files of /d, a of any age, and the folder s
        { Run(T, <<d>>, Nextcloud(t),
              Disk(T, << <<in(<<"a">>), FALSE, u>>,
                         <<in(<<"m", " ", "f">>), FALSE, 1>>,
                         <<in(<<"s">>), TRUE, 1>>,
                         <<in(<<"s", "/", "c">>), FALSE, 1>> >>)) :
            t \in Times, u \in Times }
        \cup
        \* ... into a target that has a file where the folder s should be
        { Run(T, <<d>>, Nextcloud(1), Disk(T, << <<in(<<"s">>), FALSE, 1>> >>)) }
        \cup
        \* two sync paths, /d and /p, into a target that is missing or empty
        { Run(T, <<d, p>>, Nextcloud(1), disk) : disk \in NoTarget(T) \cup {Disk(T, <<>>)} }
        \cup
        \* ... into a target that has the subfolder of /d already
        { Run(T, <<d, p>>, Nextcloud(t),
              Disk(T, << <<in(<<"d">>), TRUE, 1>>,
                         <<in(<<"d", "/", "a">>), FALSE, u>>,
                         <<in(<<"d", "/", "s">>), TRUE, 1>> >>)) :
            t \in Times, u \in Times }
        \cup
        \* one sync path of one file, /p, into a target that is missing or empty
        { Run(T, <<p>>, Nextcloud(1), disk) : disk \in NoTarget(T) \cup {Disk(T, <<>>)} }
        \cup
        \* two sync paths, the second the top folder of the account
        { Run(T, <<p, <<"/">>>>, Nextcloud(1), Disk(T, <<>>)) }

Init ==
    /\ \E run \in Runs(TargetPath1) :
          /\ cfg = run.cfg
          /\ nc = run.nc
          /\ yd = run.yd
    /\ pc = "start"
    /\ idx = 1
    /\ yndxFs = Folder(<<>>)
    /\ ncFs = Folder(<<>>)
    /\ stack = <<>>
    /\ stats = [TotalFiles |-> 0, UploadedFiles |-> 0, SkippedFiles |-> 0, ErrorFiles |-> 0]
    /\ result = "none"
    /\ calls = <<>>
    /\ hist = <<>>
    /\ faults = 0

(***************************************************************************)
(* The run.  Every action is one stretch of Main or syncFolders between    *)
(* two points where the remotes decide how the run goes on.                *)
(***************************************************************************)
\* the calls of one stretch, marked with the sync path they were issued for
\* (0: before the loop of Main) and the Nextcloud file they transfer
Tagged(cs, root, src) ==
    [i \in 1..Len(cs) |-> [remote |-> cs[i].remote, op |-> cs[i].op,
                           path |-> cs[i].path, ok |-> cs[i].ok,
                           root |-> root, src |-> src]]

Event(ev, root, path, base, info) ==
    [ev |-> ev, root |-> root, path |-> path, base |-> base, info |-> info]

B2N(b) == IF b THEN 1 ELSE 0

\* the transport failures a stretch may still produce
Fits(n) == faults + n <= MaxFaults

Top == stack[Len(stack)]

\* the next turn of a loop of syncFolders: the stack with the position
\* `field` of the innermost call moved on
Advance(field) == [stack EXCEPT ![Len(stack)][field] = @ + 1]

SyncPaths == cfg.NextcloudSyncPaths

NeverNoSyncPaths(paths) == FALSE

\* Main, line 54
NoSyncPaths(paths) == Len(paths) = 0

TargetNeverFailed(c) == FALSE

\* Main, lines 65-67: createErr of the target folder chain ends the run
TargetFailed(c) == ~c.ok

Break(i) == Len(cfg.NextcloudSyncPaths) + 1

\* Main, lines 82, 111, 122: continue with the next sync path
Continue(i) == i + 1

SubFolderNeverFailed(c) == FALSE

\* syncFolders, lines 249-252: the subfolder is left out when its chain failed
SubFolderFailed(c) == ~c.ok

CountFileNoElse(st, outcome) ==
    CASE outcome = "skipped" ->
            [st EXCEPT !.TotalFiles = @ + 1, !.SkippedFiles = @ + 1]
      [] outcome = "uploaded" ->
            [st EXCEPT !.TotalFiles = @ + 1, !.UploadedFiles = @ + 1]
      [] outcome = "errored" ->
            [st EXCEPT !.TotalFiles = @ + 1, !.ErrorFiles = @ + 1,
                       !.UploadedFiles = @ + 1]

\* the counters after one file, were a skipped file counted in TotalFiles only
CountFileNoSkip(st, outcome) ==
    CASE outcome = "skipped" ->
            [st EXCEPT !.TotalFiles = @ + 1]
      [] outcome = "uploaded" ->
            [st EXCEPT !.TotalFiles = @ + 1, !.UploadedFiles = @ + 1]
      [] outcome = "errored" ->
            [st EXCEPT !.TotalFiles = @ + 1, !.ErrorFiles = @ + 1]

\* syncFolders, lines 192, 217, 224, 227: the counters after one file
CountFile(st, outcome) ==
    CASE outcome = "skipped" ->
            [st EXCEPT !.TotalFiles = @ + 1, !.SkippedFiles = @ + 1]
      [] outcome = "uploaded" ->
            [st EXCEPT !.TotalFiles = @ + 1, !.UploadedFiles = @ + 1]
      [] outcome = "errored" ->
            [st EXCEPT !.TotalFiles = @ + 1, !.ErrorFiles = @ + 1]

\* the transport failures one call of createFolderChain may meet: GetFileInfo
\* fails at paths that are there, CreateFolder at one path (its first failure
\* ends the call), as many as the run may still produce
ChainFaults(path) ==
    LET there == {q \in ChainPaths(path) : ExistsAt(yd, q)}
    IN  {d \in (SUBSET there) \X ({{}} \cup {{q} : q \in ChainPaths(path)}) :
            Fits(Cardinality(d[1]) + Cardinality(d[2]))}

\* what a call of createFolderChain came to: its error and its last call
ChainInfo(c) ==
    [err |-> c.err,
     last |-> IF c.calls = <<>> THEN <<>> ELSE c.calls[Len(c.calls)].path,
     mkdirs |-> Cardinality({i \in 1..Len(c.calls) : c.calls[i].op = "CreateFolder"})]

\* Main, lines 54-56: no sync path is configured
ConfigError ==
    /\ pc = "start"
    /\ NoSyncPaths(SyncPaths)
    /\ result' = "error"
    /\ pc' = "done"
    /\ hist' = Append(hist, Event("fatal", 0, <<>>, <<>>, "config"))
    /\ UNCHANGED <<cfg, nc, yd, idx, yndxFs, ncFs, stack, stats, calls, faults>>

\* Main, lines 58-62: the snapshot of the target folder
ReadTarget ==
    /\ pc = "start"
    /\ ~NoSyncPaths(SyncPaths)
    /\ \E failAt \in 0..(Cardinality(DOMAIN yd) + 1) :
          LET r == getYandexFileSystem(yd, cfg.YandexTargetPath, 0, failAt)
          IN  /\ r.fault = (failAt # 0)
              /\ Fits(B2N(r.fault))
              /\ faults' = faults + B2N(r.fault)
              /\ calls' = calls \o Tagged(r.calls, 0, <<>>)
              /\ IF r.ok
                 THEN /\ yndxFs' = r.fs
                      /\ pc' = "root"
                      /\ hist' = Append(hist, Event("target", 0, cfg.YandexTargetPath,
                                                    cfg.YandexTargetPath, "listed"))
                 ELSE /\ yndxFs' = yndxFs
                      /\ pc' = "mkroot"
                      /\ hist' = hist
    /\ UNCHANGED <<cfg, nc, yd, idx, ncFs, stack, stats, result>>

\* Main, lines 63-70: the target folder could not be read
CreateTarget ==
    /\ pc = "mkroot"
    /\ \E down \in ChainFaults(cfg.YandexTargetPath) :
          LET c == createFolderChain(yd, cfg.YandexTargetPath, down[1], down[2])
          IN  /\ c.used = {<<"g", q>> : q \in down[1]} \cup {<<"m", q>> : q \in down[2]}
              /\ faults' = faults + Cardinality(c.used)
              /\ calls' = calls \o Tagged(c.calls, 0, <<>>)
              /\ yd' = c.yd
              /\ IF TargetFailed(c)
                 THEN /\ yndxFs' = yndxFs
                      /\ pc' = "done"
                      /\ result' = "error"
                      /\ hist' = Append(hist, Event("fatal", 0, cfg.YandexTargetPath,
                                                    cfg.YandexTargetPath, "target"))
                 ELSE /\ yndxFs' = Folder(cfg.YandexTargetPath)
                      /\ pc' = "root"
                      /\ result' = result
                      /\ hist' = Append(hist, Event("target", 0, cfg.YandexTargetPath,
                                                    cfg.YandexTargetPath, "created"))
    /\ UNCHANGED <<cfg, nc, idx, ncFs, stack, stats>>

\* Main, lines 74-83: the snapshot of the next sync path
ReadSource ==
    /\ pc = "root"
    /\ idx <= Len(SyncPaths)
    /\ \E failAt \in 0..Cardinality(DOMAIN nc) :
          LET r == getNextcloudFileSystem(nc, SyncPaths[idx], 0, failAt)
          IN  /\ r.fault = (failAt # 0)
              /\ Fits(B2N(r.fault))
              /\ faults' = faults + B2N(r.fault)
              /\ calls' = calls \o Tagged(r.calls, idx, <<>>)
              /\ IF r.ok
                 THEN /\ ncFs' = r.fs
                      /\ pc' = "target"
                      /\ idx' = idx
                      /\ hist' = hist
                 ELSE /\ ncFs' = ncFs
                      /\ pc' = "root"
                      /\ idx' = Continue(idx)
                      /\ hist' = Append(hist, Event("rootskip", idx, SyncPaths[idx],
                                                    <<>>, "snapshot"))
    /\ UNCHANGED <<cfg, nc, yd, yndxFs, stack, stats, result>>

\* Main, lines 88-90 and 102-103, 120: the target folder itself is where the
\* sync path goes
UseTarget ==
    /\ pc = "target"
    /\ LET targetPath == TargetPath(cfg.YandexTargetPath, SyncPaths, SyncPaths[idx])
       IN  /\ targetPath = cfg.YandexTargetPath
           /\ stack' = <<Frame(ncFs, yndxFs, targetPath)>>
           /\ hist' = Append(hist, Event("root", idx, ncFs.Path, targetPath, "target"))
    /\ pc' = "sync"
    /\ UNCHANGED <<cfg, nc, yd, idx, yndxFs, ncFs, stats, result, calls, faults>>

\* Main, lines 91-117, 120: the sync path goes into a folder of its own
UseSubfolder ==
    /\ pc = "target"
    /\ LET targetPath == TargetPath(cfg.YandexTargetPath, SyncPaths, SyncPaths[idx])
       IN
       /\ targetPath # cfg.YandexTargetPath
       /\ \E failAt \in 0..(Cardinality(DOMAIN yd) + 1), down \in BOOLEAN :
             LET r == getYandexFileSystem(yd, targetPath, 0, failAt)
                 mk == YdCreateFolder(yd, targetPath, down)
                 n == B2N(r.fault) + B2N(down)
             IN  /\ r.fault = (failAt # 0)
                 /\ r.ok => ~down
                 /\ Fits(n)
                 /\ faults' = faults + n
                 /\ IF r.ok
                    THEN /\ calls' = calls \o Tagged(r.calls, idx, <<>>)
                         /\ yd' = yd
                         /\ stack' = <<Frame(ncFs, r.fs, targetPath)>>
                         /\ pc' = "sync"
                         /\ idx' = idx
                         /\ hist' = Append(hist, Event("root", idx, ncFs.Path,
                                                       targetPath, "listed"))
                    ELSE /\ calls' = calls \o Tagged(r.calls \o
                                 <<Call("yd", "CreateFolder", targetPath, mk.ok)>>,
                                 idx, <<>>)
                         /\ yd' = mk.yd
                         /\ IF mk.ok
                            THEN /\ stack' = <<Frame(ncFs, Folder(targetPath), targetPath)>>
                                 /\ pc' = "sync"
                                 /\ idx' = idx
                                 /\ hist' = Append(hist, Event("root", idx, ncFs.Path,
                                                               targetPath, "created"))
                            ELSE /\ stack' = stack
                                 /\ pc' = "root"
                                 /\ idx' = Continue(idx)
                                 /\ hist' = Append(hist, Event("rootskip", idx,
                                                SyncPaths[idx], targetPath, mk.err))
    /\ UNCHANGED <<cfg, nc, yndxFs, ncFs, stats, result>>

\* the file the first loop of syncFolders is at
FileTurn ==
    /\ pc = "sync"
    /\ Top.fi <= Len(Top.nc.Files)

\* syncFolders, lines 191-219: a file that is up to date
SkipFile ==
    /\ FileTurn
    /\ LET ncFile == Top.nc.Files[Top.fi]
       IN  /\ ~NeedsSync(ncFile, Top.yd)
           /\ stats' = CountFile(stats, "skipped")
           /\ hist' = Append(hist, Event("file", idx, ncFile.Path, Top.base, "skipped"))
    /\ stack' = Advance("fi")
    /\ UNCHANGED <<cfg, nc, yd, pc, idx, yndxFs, ncFs, result, calls, faults>>

\* syncFolders, lines 191-229: a file that is missing or older in the target
TransferFile ==
    /\ FileTurn
    /\ LET ncFile == Top.nc.Files[Top.fi]
       IN  /\ NeedsSync(ncFile, Top.yd)
           /\ \E down \in {"none", "DownloadFile", "GetFileInfo", "UploadFile"} :
                 LET r == syncFile(yd, ncFile.Path, Top.base, Base(ncFile.Path), down)
                     outcome == IF r.ok THEN "uploaded" ELSE "errored"
                 IN  /\ Fits(B2N(down # "none"))
                     /\ faults' = faults + B2N(down # "none")
                     /\ calls' = calls \o Tagged(r.calls, idx, ncFile.Path)
                     /\ yd' = r.yd
                     /\ stats' = CountFile(stats, outcome)
                     /\ hist' = Append(hist, Event("file", idx, ncFile.Path, Top.base,
                                                   outcome))
    /\ stack' = Advance("fi")
    /\ UNCHANGED <<cfg, nc, pc, idx, yndxFs, ncFs, result>>

\* the subfolder the second loop of syncFolders is at
SubFolderTurn ==
    /\ pc = "sync"
    /\ Top.fi > Len(Top.nc.Files)
    /\ Top.di <= Len(Top.nc.Folders)

\* syncFolders, lines 233-246, 257-258: a subfolder the target snapshot has
EnterSubFolder ==
    /\ SubFolderTurn
    /\ LET ncSubFolder == Top.nc.Folders[Top.di]
           decodedFolderName == DecodeName(Base(ncSubFolder.Path))
           yandexSubFolderPath == Join(Top.base, decodedFolderName)
           found == YandexFoldersAt(Top.yd, decodedFolderName)
       IN  /\ found # {}
           /\ \E yandexSubFolder \in found :
                 stack' = Append(Advance("di"),
                                 Frame(ncSubFolder, yandexSubFolder, yandexSubFolderPath))
           /\ hist' = Append(hist, Event("enter", idx, ncSubFolder.Path,
                                         yandexSubFolderPath, "listed"))
    /\ UNCHANGED <<cfg, nc, yd, pc, idx, yndxFs, ncFs, stats, result, calls, faults>>

\* syncFolders, lines 233-258: a subfolder the target snapshot does not have
CreateSubFolder ==
    /\ SubFolderTurn
    /\ LET ncSubFolder == Top.nc.Folders[Top.di]
           decodedFolderName == DecodeName(Base(ncSubFolder.Path))
           yandexSubFolderPath == Join(Top.base, decodedFolderName)
       IN
       /\ YandexFoldersAt(Top.yd, decodedFolderName) = {}
       /\ \E down \in ChainFaults(yandexSubFolderPath) :
             LET c == createFolderChain(yd, yandexSubFolderPath, down[1], down[2])
                 chain == Event("chain", idx, ncSubFolder.Path, yandexSubFolderPath,
                                ChainInfo(c))
             IN  /\ c.used = {<<"g", q>> : q \in down[1]} \cup {<<"m", q>> : q \in down[2]}
                 /\ faults' = faults + Cardinality(c.used)
                 /\ calls' = calls \o Tagged(c.calls, idx, <<>>)
                 /\ yd' = c.yd
                 /\ IF SubFolderFailed(c)
                    THEN /\ stack' = Advance("di")
                         /\ hist' = Append(hist, chain)
                    ELSE /\ stack' = Append(Advance("di"),
                                Frame(ncSubFolder, Folder(yandexSubFolderPath),
                                      yandexSubFolderPath))
                         /\ hist' = hist \o <<chain,
                                Event("enter", idx, ncSubFolder.Path,
                                      yandexSubFolderPath, "created")>>
    /\ UNCHANGED <<cfg, nc, pc, idx, yndxFs, ncFs, stats, result>>

\* syncFolders, line 263: both loops are through; when it was the call of
\* Main (lines 120-124), Main goes on with the next sync path
Return ==
    /\ pc = "sync"
    /\ Top.fi > Len(Top.nc.Files)
    /\ Top.di > Len(Top.nc.Folders)
    /\ stack' = SubSeq(stack, 1, Len(stack) - 1)
    /\ IF Len(stack) = 1
       THEN /\ pc' = "root"
            /\ idx' = Continue(idx)
            /\ hist' = Append(hist, Event("rootdone", idx, <<>>, <<>>, "nil"))
       ELSE /\ pc' = pc
            /\ idx' = idx
            /\ hist' = hist
    /\ UNCHANGED <<cfg, nc, yd, yndxFs, ncFs, stats, result, calls, faults>>

\* Main, lines 126-129
Finish ==
    /\ pc = "root"
    /\ idx > Len(SyncPaths)
    /\ pc' = "done"
    /\ result' = "nil"
    /\ UNCHANGED <<cfg, nc, yd, idx, yndxFs, ncFs, stack, stats, calls, hist, faults>>

\* log.Fatalln (part_000, line 148): prints its arguments, then os.Exit(1),
\* whatever the arguments are
Fatalln(err) == 1

Exited == {i \in 1..Len(hist) : hist[i].ev = "exit"}

\* process, line 148: log.Fatalln(proc.Main(...)) once Main has returned
Exit ==
    /\ pc = "done"
    /\ Exited = {}
    /\ hist' = Append(hist, Event("exit", 0, <<>>, <<>>, [code |-> Fatalln(result)]))
    /\ UNCHANGED <<cfg, nc, yd, pc, idx, yndxFs, ncFs, stack, stats, result, calls, faults>>

Next ==
    \/ ConfigError
    \/ ReadTarget
    \/ CreateTarget
    \/ ReadSource
    \/ UseTarget
    \/ UseSubfolder
    \/ SkipFile
    \/ TransferFile
    \/ EnterSubFolder
    \/ CreateSubFolder
    \/ Return
    \/ Finish
    \/ Exit

Spec == Init /\ [][Next]_vars

(***************************************************************************)
(* Properties of the run.                                                  *)
(***************************************************************************)
Range(q) == {q[i] : i \in 1..Len(q)}

\* the file the first loop of syncFolders is at, and the files of the target
\* snapshot that have its decoded base name
CurFile == Top.nc.Files[Top.fi]

DestMatches ==
    {f \in Range(Top.yd.Files) : Base(f.Path) = DecodeName(Base(CurFile.Path))}

\* the calls issued by the step
NewCalls == SubSeq(calls', Len(calls) + 1, Len(calls'))

NewOps(op) == {i \in 1..Len(NewCalls) : NewCalls[i].op = op}

\* C1: a file whose decoded base name is among the files of the target
\* folder is transferred only when its modification time is strictly after
\* the target's; when the target's time is equal or later the file is
\* skipped: SkippedFiles goes up by one and no DownloadFile, GetFileInfo or
\* UploadFile call is issued for it.
C1_SkipUnlessStrictlyNewer ==
    [][ (FileTurn /\ DestMatches # {}) =>
          LET upToDate == \A f \in DestMatches : f.Modified >= CurFile.Modified
          IN  /\ upToDate =>
                    /\ stats' = [stats EXCEPT !.TotalFiles = @ + 1,
                                              !.SkippedFiles = @ + 1]
                    /\ calls' = calls
                    /\ yd' = yd
              /\ ~upToDate =>
                    /\ stats'.SkippedFiles = stats.SkippedFiles
                    /\ NewOps("DownloadFile") # {}
                    /\ \A i \in 1..Len(NewCalls) : NewCalls[i].src = CurFile.Path
              /\ (NewOps("UploadFile") # {} \/ stats'.UploadedFiles # stats.UploadedFiles)
                    => \E f \in DestMatches : CurFile.Modified > f.Modified
      ]_vars

\* C1 witness: a file was just skipped whose time equals the target's
C1_Witness ==
    /\ pc = "sync"
    /\ Top.fi > 1
    /\ LET ncFile == Top.nc.Files[Top.fi - 1]
           there == {f \in Range(Top.yd.Files) :
                        Base(f.Path) = DecodeName(Base(ncFile.Path))}
       IN  /\ there # {}
           /\ \A f \in there : f.Modified = ncFile.Modified
           /\ hist[Len(hist)] = Event("file", idx, ncFile.Path, Top.base, "skipped")
           /\ stats.SkippedFiles >= 1

\* the UploadFile calls of the run so far
Uploads == {i \in 1..Len(calls) : calls[i].op = "UploadFile"}

\* every call issued for the sync paths succeeded
AllCallsOk == \A i \in 1..Len(calls) : calls[i].root = 0 \/ calls[i].ok

\* a finished run of one sync path that holds one file and nothing else, into
\* a target folder whose snapshot was empty
OneFileIntoEmptyTarget ==
    /\ result = "nil"
    /\ Len(SyncPaths) = 1
    /\ Len(ncFs.Files) = 1
    /\ ncFs.Folders = <<>>
    /\ yndxFs.Files = <<>>
    /\ yndxFs.Folders = <<>>

\* C2: a file whose decoded base name is not among the files of the target
\* folder needs sync whatever its time: it is counted in TotalFiles, is not
\* skipped and its transfer is started; when every call of the transfer
\* succeeds there is exactly one UploadFile call, to
\* yandexBasePath + "/" + decoded name, and TotalFiles and UploadedFiles go up
\* by one each.  One file into an empty target ends with the counters
\* 1, 1, 0, 0 and one UploadFile call.
C2_AbsentFileIsUploaded ==
    /\ [][ (FileTurn /\ DestMatches = {}) =>
             /\ stats'.TotalFiles = stats.TotalFiles + 1
             /\ stats'.SkippedFiles = stats.SkippedFiles
             /\ NewOps("DownloadFile") # {}
             /\ (\A i \in 1..Len(NewCalls) : NewCalls[i].ok) =>
                   /\ Cardinality(NewOps("UploadFile")) = 1
                   /\ \A i \in NewOps("UploadFile") :
                         NewCalls[i].path =
                            Top.base \o <<"/">> \o DecodeName(Base(CurFile.Path))
                   /\ stats' = [stats EXCEPT !.TotalFiles = @ + 1,
                                             !.UploadedFiles = @ + 1]
         ]_vars
    /\ [](OneFileIntoEmptyTarget /\ AllCallsOk =>
             /\ stats = [TotalFiles |-> 1, UploadedFiles |-> 1,
                         SkippedFiles |-> 0, ErrorFiles |-> 0]
             /\ Cardinality(Uploads) = 1
             /\ \A i \in Uploads :
                   calls[i].path = cfg.YandexTargetPath \o <<"/">> \o
                                   DecodeName(Base(ncFs.Files[1].Path)))

\* C2 witness: the run of one file into an empty target is over, every call
\* succeeded and the file was uploaded to <target>/a
C2_Witness ==
    /\ OneFileIntoEmptyTarget
    /\ AllCallsOk
    /\ stats.UploadedFiles = 1
    /\ \E i \in Uploads : calls[i].path = <<"/", "x", "/", "b", "/", "a">>

\* the events of a kind that the run recorded for a Nextcloud path while it
\* was at a sync path
Events(kinds, root, path) ==
    {i \in 1..Len(hist) : /\ hist[i].ev \in kinds
                          /\ hist[i].root = root
                          /\ hist[i].path = path}

\* the calls of syncFolders so far: from Main and from syncFolders itself
Visits == {i \in 1..Len(hist) : hist[i].ev \in {"root", "enter"}}

\* a subfolder was taken up: it was entered, or its folder chain failed
TakenUp(root, path) ==
    Events({"enter"}, root, path) \cup
    {i \in Events({"chain"}, root, path) : hist[i].info.err # ""}

\* every call of syncFolders counted each file of its Nextcloud folder once
\* and took up each of its subfolders once
EveryFolderComplete ==
    \A v \in Visits :
       LET listing == nc[Key(hist[v].path)]
       IN  \A k \in 1..Len(listing) :
              IF listing[k].IsDir
              THEN Cardinality(TakenUp(hist[v].root, listing[k].Path)) = 1
              ELSE Cardinality(Events({"file"}, hist[v].root, listing[k].Path)) = 1

\* C3: when the transfer of a file fails (a DownloadFile, GetFileInfo or
\* UploadFile call fails), ErrorFiles goes up by one, UploadedFiles does not
\* change, and syncFolders goes on with the next entry of the same folder;
\* whatever fails, a finished run has counted every file of every folder it
\* went through exactly once in TotalFiles and has taken up every subfolder.
C3_FileFailureIsCounted ==
    /\ [][ (FileTurn /\ \E i \in 1..Len(NewCalls) : ~NewCalls[i].ok) =>
             /\ stats' = [stats EXCEPT !.TotalFiles = @ + 1, !.ErrorFiles = @ + 1]
             /\ pc' = "sync"
             /\ stack' = [stack EXCEPT ![Len(stack)].fi = @ + 1]
         ]_vars
    /\ [](result = "nil" =>
             /\ EveryFolderComplete
             /\ stats.TotalFiles =
                   Cardinality({i \in 1..Len(hist) : hist[i].ev = "file"}))

\* C3 witness: a finished run in which the first file of /d failed, the
\* second was uploaded afterwards and the subfolder s was entered
C3_Witness ==
    /\ result = "nil"
    /\ \E i, j, k \in 1..Len(hist) :
          /\ i < j /\ j < k
          /\ hist[i].ev = "file" /\ hist[i].info = "errored"
          /\ hist[i].path = <<"/", "d", "/", "a">>
          /\ hist[j].ev = "file" /\ hist[j].info = "uploaded"
          /\ hist[j].path = <<"/", "d", "/", "m", "%", "2", "0", "f">>
          /\ hist[k].ev = "enter" /\ hist[k].path = <<"/", "d", "/", "s", "/">>
          /\ hist[i].root = hist[j].root /\ hist[j].root = hist[k].root
    /\ stats.ErrorFiles = 1

\* path p is folder q or lies in it
Under(p, q) ==
    LET a == Key(p)
        b == Key(q)
    IN  \/ b = <<>>
        \/ a = b
        \/ /\ Len(a) > Len(b)
           /\ SubSeq(a, 1, Len(b)) = b
           /\ a[Len(b) + 1] = "/"

\* the subfolders whose folder chain failed
FailedChains == {i \in 1..Len(hist) : hist[i].ev = "chain" /\ hist[i].info.err # ""}

\* nothing of the subfolder of event c was counted, entered or transferred
Untouched(c) ==
    /\ \A i \in 1..Len(hist) :
          (hist[i].ev \in {"file", "enter"} /\ hist[i].root = hist[c].root)
             => ~Under(hist[i].path, hist[c].path)
    /\ \A i \in 1..Len(calls) :
          (calls[i].root = hist[c].root /\ calls[i].src # <<>>)
             => ~Under(calls[i].src, hist[c].path)

\* the files and folders next to the subfolder of event c were gone through:
\* each file counted once, each other subfolder taken up once, and the files
\* of those that were entered counted once
SiblingsDone(c) ==
    LET listing == nc[ParentKey(Key(hist[c].path))]
        counted(path) == Cardinality(Events({"file"}, hist[c].root, path)) = 1
    IN  \A k \in 1..Len(listing) :
           IF ~listing[k].IsDir THEN counted(listing[k].Path)
           ELSE /\ Cardinality(TakenUp(hist[c].root, listing[k].Path)) = 1
                /\ Events({"enter"}, hist[c].root, listing[k].Path) # {} =>
                      \A f \in Range(nc[Key(listing[k].Path)]) :
                         ~f.IsDir => counted(f.Path)

\* C4: when the folder chain of a subfolder that the target lacks fails, the
\* subfolder is left out entirely: none of its files or descendants is
\* counted or transferred; the files and the other subfolders of the same
\* folder are still gone through and counted, and the call of syncFolders
\* that Main made returns nil.
C4_FailedSubFolderIsLeftOut ==
    \A c \in FailedChains :
       /\ Untouched(c)
       /\ result = "nil" =>
             /\ SiblingsDone(c)
             /\ Events({"rootdone"}, hist[c].root, <<>>) # {}
             /\ stats.TotalFiles =
                   Cardinality({i \in 1..Len(hist) : hist[i].ev = "file"})

\* C4 witness: a finished run in which the chain of /d/s failed and the file
\* of the next subfolder, /d/t/e, was uploaded afterwards
C4_Witness ==
    /\ result = "nil"
    /\ \E c \in FailedChains :
          /\ hist[c].path = <<"/", "d", "/", "s", "/">>
          /\ \E j \in Events({"file"}, hist[c].root, <<"/", "d", "/", "t", "/", "e">>) :
                j > c /\ hist[j].info = "uploaded"
          /\ Events({"file"}, hist[c].root, <<"/", "d", "/", "a">>) # {}

(***************************************************************************)
(* createFolderChain on its own: calls of it, one after the other, for     *)
(* paths of a small set, on a Yandex Disk that holds none, some or all of  *)
(* the folders of the path, or a file in their place.                      *)
(***************************************************************************)
MaxChainCalls == 2     \* calls of createFolderChain in one behaviour

ChainTargets ==
    { <<"/", "x", "/", "b", "/", "c">>,
      <<"/", "x", "/", "b">>,
      <<"x", "\\", "b", "/">>,
      <<"/">> }

ChainDisks ==
    { EmptyRemote,
      Populate(EmptyRemote, << <<<<"/", "x">>, TRUE, 1>> >>),
      Populate(EmptyRemote, << <<<<"/", "x">>, TRUE, 1>>,
                               <<<<"/", "x", "/", "b">>, TRUE, 1>> >>),
      Populate(EmptyRemote, << <<<<"/", "x">>, TRUE, 1>>,
                               <<<<"/", "x", "/", "b">>, FALSE, 1>> >>),
      Populate(EmptyRemote, << <<<<"/", "x">>, TRUE, 1>>,
                               <<<<"/", "x", "/", "b">>, TRUE, 1>>,
                               <<<<"/", "x", "/", "b", "/", "c">>, TRUE, 1>> >>) }

InitChain ==
    /\ cfg = [YandexTargetPath |-> TargetPath1, NextcloudSyncPaths |-> <<>>]
    /\ nc = EmptyRemote
    /\ yd \in ChainDisks
    /\ pc = "chain"
    /\ idx = 1
    /\ yndxFs = Folder(<<>>)
    /\ ncFs = Folder(<<>>)
    /\ stack = <<>>
    /\ stats = [TotalFiles |-> 0, UploadedFiles |-> 0, SkippedFiles |-> 0, ErrorFiles |-> 0]
    /\ result = "none"
    /\ calls = <<>>
    /\ hist = <<>>
    /\ faults = 0

\* one call of createFolderChain; the event keeps what the call did
CallChain ==
    /\ pc = "chain"
    /\ Len(hist) < MaxChainCalls
    /\ \E path \in ChainTargets :
          \E down \in ChainFaults(path) :
             LET c == createFolderChain(yd, path, down[1], down[2])
             IN  /\ c.used = {<<"g", q>> : q \in down[1]} \cup {<<"m", q>> : q \in down[2]}
                 /\ faults' = faults + Cardinality(c.used)
                 /\ calls' = calls \o Tagged(c.calls, 0, <<>>)
                 /\ yd' = c.yd
                 /\ hist' = Append(hist, Event("chain", 0, path, <<>>,
                               [ok |-> c.ok, calls |-> c.calls, faults |-> c.used,
                                before |-> yd]))
    /\ UNCHANGED <<cfg, nc, pc, idx, yndxFs, ncFs, stack, stats, result>>

NextChain == CallChain

SpecChain == InitChain /\ [][NextChain]_vars

\* the CreateFolder calls of one call of createFolderChain
Mkdirs(e) == {i \in 1..Len(e.info.calls) : e.info.calls[i].op = "CreateFolder"}

\* no CreateFolder is issued for a level whose GetFileInfo succeeded, nor for
\* a level above it
NoMkdirWhereFound(e) ==
    \A i \in 1..Len(e.info.calls) :
       (e.info.calls[i].op = "GetFileInfo" /\ e.info.calls[i].ok) =>
          \A k \in Mkdirs(e) : ~Under(e.info.calls[i].path, e.info.calls[k].path)

\* call j is for the path of the call before it, and that call succeeded
Repeats(j) ==
    /\ j > 1
    /\ hist[j].path = hist[j - 1].path
    /\ hist[j - 1].info.ok

ExpectedTarget(r) ==
    LET segment == Base(SyncPaths[r])
    IN  IF Len(SyncPaths) = 1 THEN cfg.YandexTargetPath
        ELSE cfg.YandexTargetPath \o <<"/">> \o
             (IF segment \in {<<"/">>, <<".">>} THEN <<"r", "o", "o", "t">>
              ELSE segment)

\* the file of call i lies directly in the folder of its sync path
TopLevel(i) == Key(Dir(calls[i].src)) = Key(SyncPaths[calls[i].root])

\* every UploadFile call is for the folder of its sync path; the files of
\* the top of a sync path go directly into that folder, and with several
\* sync paths none goes directly into the target folder
UploadsInPlace ==
    \A i \in Uploads :
       /\ Under(calls[i].path, ExpectedTarget(calls[i].root))
       /\ TopLevel(i) => calls[i].path = ExpectedTarget(calls[i].root) \o <<"/">>
                                          \o DecodeName(Base(calls[i].src))
       /\ Len(SyncPaths) >= 2 =>
             ParentKey(Key(calls[i].path)) # Key(cfg.YandexTargetPath)

\* the CreateFolder calls issued for the sync paths
RootMkdirs == {i \in 1..Len(calls) : calls[i].op = "CreateFolder" /\ calls[i].root >= 1}

\* C6 as claimed: with one sync path its files are written directly under
\* the target folder; with two or more, every UploadFile and every
\* CreateFolder call for a sync path is for a path under
\* target + "/" + (last element of the sync path, or "root" when that is "/"
\* or "."), and no file is written directly into the target folder.
C6_AsClaimed ==
    /\ UploadsInPlace
    /\ Len(SyncPaths) >= 2 =>
          \A i \in RootMkdirs : Under(calls[i].path, ExpectedTarget(calls[i].root))

\* C6 as amended: as claimed for every UploadFile call and for every
\* CreateFolder call that creates a folder; a CreateFolder call for a folder
\* above (which is there, so the call is refused) may be issued when
\* GetFileInfo fails for the folders below it.
C6_WritesGoUnderTheSyncPathFolder ==
    /\ UploadsInPlace
    /\ Len(SyncPaths) >= 2 =>
          \A i \in RootMkdirs :
             calls[i].ok => Under(calls[i].path, ExpectedTarget(calls[i].root))

\* C6 witness: a finished run of two sync paths, /p and /, that uploaded
\* /p/a to <target>/p/a and to <target>/root/p/a
C6_Witness ==
    /\ result = "nil"
    /\ Len(SyncPaths) = 2
    /\ \E i, j \in Uploads :
          /\ calls[i].ok /\ calls[j].ok
          /\ calls[i].root = 1 /\ calls[j].root = 2
          /\ calls[i].path = <<"/", "x", "/", "b", "/", "p", "/", "a">>
          /\ calls[j].path = <<"/", "x", "/", "b", "/", "r", "o", "o", "t", "/", "p", "/", "a">>
    /\ \E i \in RootMkdirs :
          calls[i].ok /\ calls[i].path = <<"/", "x", "/", "b", "/", "r", "o", "o", "t">>

\* the calls that read Nextcloud or write a file
Transfers == {i \in 1..Len(calls) : calls[i].remote = "nc" \/ calls[i].op = "UploadFile"}

\* the CreateFolder calls Main issued for the chain of the target folder
TargetMkdirs == {i \in 1..Len(calls) : calls[i].op = "CreateFolder" /\ calls[i].root = 0}

\* C7: when the target folder is not there at the start, Main creates every
\* missing level of its path, parents before children, before it lists any
\* sync path and before any DownloadFile or UploadFile: no such call comes
\* before a CreateFolder of the target's chain, and once one is issued every
\* level of the target path is there.
C7_TargetChainComesFirst ==
    /\ \A i \in 1..Len(calls) :
          (/\ calls[i].op = "CreateFolder"
           /\ calls[i].root = 0 \/ (calls[i].ok /\ Under(cfg.YandexTargetPath, calls[i].path)))
             => \A j \in Transfers : i < j
    /\ \A i, j \in TargetMkdirs :
          i < j => /\ Under(calls[j].path, calls[i].path)
                   /\ calls[j].path # calls[i].path
    /\ Transfers # {} => \A q \in ChainPaths(cfg.YandexTargetPath) : ExistsAt(yd, q)

\* C7 witness: both levels of the target path were created, /x before /x/b,
\* and a file was uploaded afterwards
C7_Witness ==
    /\ \E i, j \in TargetMkdirs :
          /\ i < j
          /\ calls[i].ok /\ calls[i].path = <<"x">>
          /\ calls[j].ok /\ calls[j].path = <<"x", "/", "b">>
    /\ \E k \in Uploads : calls[k].ok

\* the snapshot of the target folder failed; its folder chain failed
TargetUnreadable ==
    \E i \in 1..Len(calls) : calls[i].root = 0 /\ calls[i].op = "ListFiles" /\ ~calls[i].ok

TargetChainBroke == \E i \in TargetMkdirs : ~calls[i].ok

\* C8: Main returns an error if and only if no sync path is configured, or
\* the target folder can be neither listed nor created; whatever else fails,
\* Main has a next step to take until it returns, and returns nil.
C8_OnlyConfigAndTargetAreFatal ==
    /\ (pc = "done") = (result # "none")
    /\ pc = "done" =>
          ((result = "error") =
              (Len(SyncPaths) = 0 \/ (TargetUnreadable /\ TargetChainBroke)))
    /\ pc = "sync" => stack # <<>>
    /\ pc = "target" => idx \in 1..Len(SyncPaths)

\* C8 witness: Main returned nil after a file failed and the folder chain of
\* a subfolder failed
C8_Witness ==
    /\ result = "nil"
    /\ stats.ErrorFiles >= 1
    /\ FailedChains # {}

\* the sync paths whose snapshot failed
SnapshotSkips ==
    {i \in 1..Len(hist) : hist[i].ev = "rootskip" /\ hist[i].info = "snapshot"}

\* a ListFiles call of the step failed while Main was reading a sync path
SnapshotFails ==
    /\ pc = "root"
    /\ \E i \in 1..Len(NewCalls) : NewCalls[i].remote = "nc" /\ ~NewCalls[i].ok

\* C9: when the snapshot of a sync path fails, Main leaves out that sync
\* path only: no counter changes and no Yandex Disk call is issued for it,
\* and every later sync path is taken up, in the order of the configuration.
C9_FailedSnapshotSkipsOneSyncPath ==
    /\ [][ SnapshotFails =>
             /\ stats' = stats
             /\ yd' = yd
             /\ pc' = "root"
             /\ idx' = idx + 1 ]_vars
    /\ [](/\ \A s \in SnapshotSkips :
                /\ \A i \in 1..Len(calls) :
                      calls[i].root = hist[s].root => calls[i].remote = "nc"
                /\ \A i \in 1..Len(hist) :
                      hist[i].root = hist[s].root => i = s
          /\ \A i, j \in 1..Len(calls) : i < j => calls[i].root <= calls[j].root
          /\ result = "nil" =>
                \A r \in 1..Len(SyncPaths) :
                   \E i \in 1..Len(calls) :
                      /\ calls[i].root = r
                      /\ calls[i].op = "ListFiles"
                      /\ calls[i].path = SyncPaths[r])

\* C9 witness: a finished run in which the snapshot of the first sync path
\* failed and a file of the second was uploaded
C9_Witness ==
    /\ result = "nil"
    /\ \E s \in SnapshotSkips : hist[s].root = 1
    /\ \E i \in 1..Len(hist) :
          hist[i].ev = "file" /\ hist[i].root = 2 /\ hist[i].info = "uploaded"

\* C10 as claimed: when the CreateFolder of the subfolder itself, the last
\* call of its folder chain, fails because the folder is on the disk
\* already, syncFolders goes into the subfolder with an empty target
\* snapshot.
C10_AsClaimed ==
    \A i \in FailedChains :
       (/\ hist[i].info.err = "AlreadyExists"
        /\ hist[i].info.last = Key(hist[i].base)
        /\ IsDirAt(yd, hist[i].base))
          => \E j \in Events({"enter"}, hist[i].root, hist[i].path) :
                hist[j].info = "created"

(***************************************************************************)
(* C11.  The decoding of names on its own: one file of a bounded name is   *)
(* taken through the name handling of syncFolders and syncFile.            *)
(***************************************************************************)
MaxNameLen == 5     \* characters of a base name

NameChars == {"a", "+", "%", "2", "5", "0"}

\* every well-formed escape of the name is one whose byte Unhex knows
Modelled(s) ==
    \A i \in 1..Len(s) :
       (/\ s[i] = "%"
        /\ i + 2 <= Len(s)
        /\ s[i + 1] \in HexDigits
        /\ s[i + 2] \in HexDigits) => Unhex(s[i + 1], s[i + 2]) # "?"

Names ==
    {n \in UNION {[1..k -> NameChars] : k \in 1..MaxNameLen} : Modelled(n)}

InitDecode ==
    /\ cfg = [YandexTargetPath |-> TargetPath1, NextcloudSyncPaths |-> <<>>]
    /\ nc = EmptyRemote
    /\ yd = EmptyRemote
    /\ pc = "decode"
    /\ idx = 1
    /\ yndxFs = Folder(<<>>)
    /\ ncFs = Folder(<<>>)
    /\ stack = <<>>
    /\ stats = [TotalFiles |-> 0, UploadedFiles |-> 0, SkippedFiles |-> 0, ErrorFiles |-> 0]
    /\ result = "none"
    /\ calls = <<>>
    /\ hist = <<>>
    /\ faults = 0

\* the file turn of syncFolders for a file of base name n: the name looked
\* up in yandexFiles (lines 196-203) and the path syncFile uploads to
\* (lines 269-289)
DecodeFile ==
    /\ pc = "decode"
    /\ hist = <<>>
    /\ \E n \in Names :
          hist' = <<Event("decode", 0, n, TargetPath1,
                      [lookup |-> DecodeName(n),
                       upload |-> UploadPath(TargetPath1, n)])>>
    /\ UNCHANGED <<cfg, nc, yd, pc, idx, yndxFs, ncFs, stack, stats, result,
                   calls, faults>>

NextDecode == DecodeFile

SpecDecode == InitDecode /\ [][NextDecode]_vars

Decoded == {i \in 1..Len(hist) : hist[i].ev = "decode"}

HasEscape(n) == \E i \in 1..Len(n) : n[i] = "%"

\* C11 as claimed: decoding a decoded name changes nothing, a name without
\* a percent-escape decodes to itself, and the lookup and the upload path
\* both use the decoded name.
C11_AsClaimed ==
    \A i \in Decoded :
       /\ DecodeName(hist[i].info.lookup) = hist[i].info.lookup
       /\ ~HasEscape(hist[i].path) => hist[i].info.lookup = hist[i].path
       /\ hist[i].info.upload = Join(hist[i].base, hist[i].info.lookup)

(***************************************************************************)
(* C12.  The result of the process.                                        *)
(***************************************************************************)
\* C12 as claimed: when Main returned nil (the run could start, whatever
\* failed afterwards) the process ends with result 0; it ends with another
\* result only when Main returned an error.
C12_AsClaimed ==
    \A i \in Exited : (hist[i].info.code # 0) = (result = "error")

(***************************************************************************)
(* C13.  A listing that fails inside a subfolder of a sync path.           *)
(***************************************************************************)
\* the ListFiles calls of Nextcloud that failed below a sync path, in one of
\* its subfolders
SubListingFails ==
    {i \in 1..Len(calls) : /\ calls[i].remote = "nc"
                           /\ calls[i].op = "ListFiles"
                           /\ ~calls[i].ok
                           /\ calls[i].root >= 1
                           /\ Key(calls[i].path) # Key(SyncPaths[calls[i].root])}

\* the files of the Nextcloud account
NextcloudFiles ==
    UNION {{nc[k][j].Path : j \in {x \in 1..Len(nc[k]) : ~nc[k][x].IsDir}} :
              k \in DOMAIN nc}

\* file f of sync path r was taken up by syncFolders
Reconciled(r, f) ==
    \E i \in 1..Len(hist) : hist[i].ev = "file" /\ hist[i].root = r /\ hist[i].path = f

\* C13 as claimed: when a listing fails inside a subfolder of a sync path,
\* the files of that sync path outside the subfolder, those of the folders
\* above it and beside it, are reconciled all the same.
C13_AsClaimed ==
    result = "nil" =>
       \A i \in SubListingFails :
          \A f \in NextcloudFiles :
             (Under(f, SyncPaths[calls[i].root]) /\ ~Under(f, calls[i].path))
                => Reconciled(calls[i].root, f)

\* C13: a listing that fails inside a subfolder of a sync path fails the
\* snapshot of the whole sync path: the walk stops at that call, syncFolders
\* is not called for the sync path and none of its files, the files of the
\* folders above and beside the subfolder included, is reconciled or
\* transferred; Main goes on with the next sync path.
C13_SubFolderListingFailureSkipsTheRoot ==
    \A i \in SubListingFails :
       LET r == calls[i].root
       IN  /\ \A j \in 1..Len(calls) :
                 calls[j].root = r =>
                    /\ calls[j].remote = "nc" /\ calls[j].op = "ListFiles"
                    /\ j <= i
           /\ \A f \in NextcloudFiles : ~Reconciled(r, f)
           /\ \A j \in 1..Len(hist) :
                 hist[j].root = r => hist[j].ev = "rootskip"
           /\ \E s \in SnapshotSkips : hist[s].root = r
           /\ result = "nil" =>
                 \A q \in (r + 1)..Len(SyncPaths) :
                    \E j \in 1..Len(calls) :
                       /\ calls[j].root = q
                       /\ calls[j].op = "ListFiles"
                       /\ calls[j].path = SyncPaths[q]

\* C13 witness: the listing of /d/s failed after /d itself was listed; no
\* file of /d was reconciled, and the file of the next sync path, /p, was
\* uploaded
C13_Witness ==
    /\ result = "nil"
    /\ \E i \in SubListingFails :
          /\ calls[i].root = 1
          /\ calls[i].path = <<"/", "d", "/", "s", "/">>
          /\ \E j \in 1..(i - 1) :
                calls[j].root = 1 /\ calls[j].ok /\ calls[j].path = <<"/", "d">>
    /\ ~Reconciled(1, <<"/", "d", "/", "a">>)
    /\ \E k \in 1..Len(hist) :
          hist[k].ev = "file" /\ hist[k].root = 2 /\ hist[k].info = "uploaded"

(***************************************************************************)
(* C14.  Two runs, one after the other: the program is started again with  *)
(* the same configuration after a run in which nothing failed, on the      *)
(* Yandex Disk as the first run left it and the Nextcloud account as it    *)
(* was.                                                                    *)
(***************************************************************************)
Reruns == {i \in 1..Len(hist) : hist[i].ev = "rerun"}

\* the run so far met no transport failure, counted no file as failed and
\* left out no sync path and no subfolder
RunClean ==
    /\ faults = 0
    /\ stats.ErrorFiles = 0
    /\ \A i \in 1..Len(hist) :
          /\ hist[i].ev # "rootskip"
          /\ hist[i].ev = "chain" => hist[i].info.err = ""

\* process (part_000, lines 124-152) is run a second time; the event keeps
\* the statistics of the first run
Rerun ==
    /\ pc = "done"
    /\ result = "nil"
    /\ Exited # {}
    /\ Reruns = {}
    /\ RunClean
    /\ pc' = "start"
    /\ idx' = 1
    /\ yndxFs' = Folder(<<>>)
    /\ ncFs' = Folder(<<>>)
    /\ stack' = <<>>
    /\ stats' = [TotalFiles |-> 0, UploadedFiles |-> 0, SkippedFiles |-> 0, ErrorFiles |-> 0]
    /\ result' = "none"
    /\ calls' = <<>>
    /\ hist' = <<Event("rerun", 0, <<>>, <<>>, [stats |-> stats])>>
    /\ UNCHANGED <<cfg, nc, yd, faults>>

NextTwice == Next \/ Rerun

SpecTwice == Init /\ [][NextTwice]_vars

NoCallFailed == \A i \in 1..Len(calls) : calls[i].ok

Writes == {i \in 1..Len(calls) : calls[i].op \in {"UploadFile", "CreateFolder"}}

Counters == {"TotalFiles", "UploadedFiles", "SkippedFiles", "ErrorFiles"}

\* C15: before and after every file, in every folder of every sync path and
\* whatever failed, TotalFiles = UploadedFiles + SkippedFiles + ErrorFiles,
\* and no step of the run makes a counter smaller.
C15_CountersAddUp ==
    /\ [](stats.TotalFiles =
             stats.UploadedFiles + stats.SkippedFiles + stats.ErrorFiles)
    /\ [][\A c \in Counters : stats'[c] >= stats[c]]_vars

\* C15 witness: syncFolders is at work on the second of two sync paths, and
\* files have been uploaded, skipped and counted as failed
C15_Witness ==
    /\ pc = "sync"
    /\ idx = 2
    /\ stats.UploadedFiles >= 1
    /\ stats.SkippedFiles >= 1
    /\ stats.ErrorFiles >= 1
    /\ faults >= 1

(***************************************************************************)
(* C16.  Where files are written.                                          *)
(***************************************************************************)
\* the folder the UploadFile call i writes into
ParentOf(i) == ParentKey(Key(calls[i].path))

\* an earlier call of the run on the Yandex Disk, one of ops, succeeded for
\* the folder call i writes into
Earlier(i, ops) ==
    \E j \in 1..(i - 1) : /\ calls[j].remote = "yd"
                          /\ calls[j].op \in ops
                          /\ calls[j].ok
                          /\ Key(calls[j].path) = ParentOf(i)

\* C16 as claimed: every UploadFile issued writes into a folder of the
\* Yandex Disk; no UploadFile is issued below a path that is a file.
C16_AsClaimed ==
    \A i \in Uploads : IsDirAt(yd, ParentOf(i))

\* C16: every UploadFile issued writes below a path for which a ListFiles,
\* a CreateFolder or the GetFileInfo of createFolderChain succeeded before in
\* the run, and every UploadFile that succeeds writes into a folder.  A path
\* that GetFileInfo finds is taken for a folder, a file included: the
\* UploadFile calls below it are issued, fail and are counted in ErrorFiles.
C16_WritesGoBelowPathsFound ==
    /\ \A i \in Uploads :
          /\ Earlier(i, {"ListFiles", "CreateFolder", "GetFileInfo"})
          /\ calls[i].ok => IsDirAt(yd, ParentOf(i))
    /\ stats.ErrorFiles >=
          Cardinality({i \in Uploads : ~IsDirAt(yd, ParentOf(i))})

\* C16 witness: x/b/s is a file on the Yandex Disk; createFolderChain found
\* it by GetFileInfo, and the UploadFile of /d/s/c below it was issued and
\* failed
C16_Witness ==
    /\ IsFileAt(yd, <<"/", "x", "/", "b", "/", "s">>)
    /\ \E i \in Uploads :
          /\ calls[i].path = <<"/", "x", "/", "b", "/", "s", "/", "c">>
          /\ ~calls[i].ok
          /\ Earlier(i, {"GetFileInfo"})
    /\ stats.ErrorFiles >= 1
    /\ faults = 0

(***************************************************************************)
(* C17.  Files of the target folder that are up to date.                   *)
(***************************************************************************)
\* where the file the first loop of syncFolders is at goes on the Yandex Disk
CurDest == UploadPath(Top.base, Base(CurFile.Path))

\* that file is on the Yandex Disk, with a modification time that is not
\* before the one of the Nextcloud file
UpToDateOnDisk ==
    /\ IsFileAt(yd, CurDest)
    /\ \A i \in EntryAt(yd, CurDest) :
          yd[ParentKey(Key(CurDest))][i].ModTime >= CurFile.Modified

\* C17 as claimed: whatever listing failed while Main read the target
\* folder, a file that is up to date on the Yandex Disk is counted as
\* skipped, and no call is issued to transfer it.
C17_AsClaimed ==
    [][ (FileTurn /\ UpToDateOnDisk) =>
          /\ stats'.SkippedFiles = stats.SkippedFiles + 1
          /\ calls' = calls
          /\ yd' = yd ]_vars

====
